---------------------------- MODULE Spec2Model ----------------------------
(* URL shortener: the Base62 codec and the code-generation strategies of   *)
(* server/utils/urlCodeGenerator.js, the handlers of                       *)
(* server/apis/url/index.js (shorten, edit, delete, track-redirect) and    *)
(* the redirect GET /:urlCode, over the tables urls and click_details of   *)
(* supabase-migration.sql as server/db/models/Url.js reads and writes      *)
(* them.                                                                   *)
(*                                                                         *)
(* A string is a sequence of one-character strings.  JavaScript numbers    *)
(* are modelled by integers below 2^31, where every operation used here is *)
(* exact.                                                                  *)
EXTENDS Integers, Sequences, FiniteSets, TLC

(***************************************************************************)
(* Bounds of the model                                                     *)
(***************************************************************************)
\* numbers 0..MaxNum are encoded exhaustively (covers 62 and 3844 = 62^2)
MaxNum == 3900
\* raw strings handed to decodeBase62 have at most this many characters
MaxStrLen == 3
\* requested code lengths are -1..MaxLength, and the default 7
MaxLength == 3
\* shorten requests served, in any interleaving
MaxRequests == 2
\* a shorten request is followed for at most this many calls of
\* shortid.generate() when requests interleave
AttemptCap == 3
\* and for at most this many when a single request is followed
RetryCap == 7
\* the clock of the service runs from hour 0 to hour MaxClock
MaxClock == 1

\* the click_details rows recordClick keeps per link (100 in the source)
RetentionLimit == 2
\* the requests the limiter of POST /api/url/shorten lets pass per window
\* and address (20 in the source) and those the limiter of all routes lets
\* pass (100 in the source)
ShortenMax == 2
GlobalMax == 4

(***************************************************************************)
(* urlCodeGenerator.js: the alphabet and the codec                         *)
(***************************************************************************)
BASE62_CHARS ==
  << "0", "1", "2", "3", "4", "5", "6", "7", "8", "9",
     "a", "b", "c", "d", "e", "f", "g", "h", "i", "j", "k", "l", "m",
     "n", "o", "p", "q", "r", "s", "t", "u", "v", "w", "x", "y", "z",
     "A", "B", "C", "D", "E", "F", "G", "H", "I", "J", "K", "L", "M",
     "N", "O", "P", "Q", "R", "S", "T", "U", "V", "W", "X", "Y", "Z" >>

\* the radix written as the literal 62 in encodeBase62 and decodeBase62
Radix == 62

\* BASE62_CHARS[i] of JavaScript (0-based)
CharAt(i) == BASE62_CHARS[i + 1]

\* BASE62_CHARS.indexOf(char): the 0-based position, -1 when absent
IndexOf(char) ==
  IF \E i \in 1..Len(BASE62_CHARS) : BASE62_CHARS[i] = char
    THEN (CHOOSE i \in 1..Len(BASE62_CHARS) : BASE62_CHARS[i] = char) - 1
    ELSE -1

\* a plausible slip: the loop stops at the last digit, "while (num >= 62)"
RECURSIVE EncodeLoopFromRadix(_, _)
EncodeLoopFromRadix(num, encoded) ==
  IF num >= Radix
    THEN EncodeLoopFromRadix(num \div Radix,
                             <<CharAt(num % Radix)>> \o encoded)
    ELSE encoded

\* the while loop of encodeBase62: prepend the digit of num % 62, go on
\* with floor(num / 62) while num > 0
RECURSIVE EncodeLoop(_, _)
EncodeLoop(num, encoded) ==
  IF num > 0
    THEN EncodeLoop(num \div Radix, <<CharAt(num % Radix)>> \o encoded)
    ELSE encoded

\* a plausible slip: the digits are appended, least significant first
RECURSIVE EncodeLoopAppend(_, _)
EncodeLoopAppend(num, encoded) ==
  IF num > 0
    THEN EncodeLoopAppend(num \div Radix, encoded \o <<CharAt(num % Radix)>>)
    ELSE encoded

EncodeBase62AsAppend(num) ==
  IF num = 0 THEN <<CharAt(0)>> ELSE EncodeLoopAppend(num, <<>>)

encodeBase62(num) ==
  IF num = 0 THEN <<CharAt(0)>> ELSE EncodeLoop(num, <<>>)

\* the for loop of decodeBase62 from position i (1-based) on
RECURSIVE DecodeLoop(_, _, _)
DecodeLoop(str, i, num) ==
  IF i <= Len(str)
    THEN DecodeLoop(str, i + 1, num * Radix + IndexOf(str[i]))
    ELSE num

\* a plausible slip: the accumulator is multiplied after the digit is added
RECURSIVE DecodeLoopLate(_, _, _)
DecodeLoopLate(str, i, num) ==
  IF i <= Len(str)
    THEN DecodeLoopLate(str, i + 1, (num + IndexOf(str[i])) * Radix)
    ELSE num

DecodeBase62AsLate(str) ==
  [error |-> "none", value |-> DecodeLoopLate(str, 1, 0)]

\* decodeBase62 has no throw statement: every string yields a number
decodeBase62(str) ==
  [error |-> "none", value |-> DecodeLoop(str, 1, 0)]

\* isValidCode: non-empty and every character in the alphabet
isValidCode(code) ==
  /\ Len(code) > 0
  /\ \A i \in 1..Len(code) : IndexOf(code[i]) # -1

(***************************************************************************)
(* urlCodeGenerator.js: the strategies                                     *)
(***************************************************************************)
\* the outcome of a call: a returned string, or a thrown error
Return(code) == [error |-> "none", code |-> code]
Throw(kind) == [error |-> kind, code |-> <<>>]

\* String.prototype.substring(start, end): both clamped to 0..length and
\* swapped when start > end
Substring(s, start, end) ==
  LET clamp(x) == IF x < 0 THEN 0 ELSE IF x > Len(s) THEN Len(s) ELSE x
      a == clamp(start)
      b == clamp(end)
      lo == IF a <= b THEN a ELSE b
      hi == IF a <= b THEN b ELSE a
  IN SubSeq(s, lo + 1, hi)

\* 62 ** length for 0 <= length <= 5
RECURSIVE Pow62(_)
Pow62(length) == IF length <= 0 THEN 1 ELSE Radix * Pow62(length - 1)

\* Number(decimal % BigInt(62 ** length)) for length >= 0; the modelled
\* digests are below 2^31 < 62^6, so from length 6 on the residue is the
\* digest itself
ModPow62(decimal, length) ==
  IF length >= 6 THEN decimal ELSE decimal % Pow62(length)

\* "while (code.length < length) code = BASE62_CHARS[random index] + code":
\* pads holds the indices Math.floor(Math.random() * 62) yields, in order
RECURSIVE PadLeft(_, _, _)
PadLeft(code, length, pads) ==
  IF Len(code) < length /\ pads # <<>>
    THEN PadLeft(<<CharAt(Head(pads))>> \o code, length, Tail(pads))
    ELSE code

\* "while (code.length < length) code += BASE62_CHARS[randomIndex]"
RECURSIVE PadRight(_, _, _)
PadRight(code, length, pads) ==
  IF Len(code) < length /\ pads # <<>>
    THEN PadRight(code \o <<CharAt(Head(pads))>>, length, Tail(pads))
    ELSE code

\* the largest length for which the double 62 ** length is finite
MaxFinitePower == 171

\* a plausible slip: the digest is not reduced modulo 62 ** length and the
\* final substring(0, length) is left out
GenerateFromMD5NoCut(url, length, digest, pads) ==
  IF length < 0 THEN Throw("RangeError")
  ELSE Return(PadLeft(encodeBase62(digest), length, pads))

\* generateFromMD5 on the value digest of the first 16 hex characters of the
\* hash; BigInt(62 ** length) throws a RangeError for length < 0, where
\* 62 ** length is no integer, and for length > 171, where it is Infinity
generateFromMD5(url, length, digest, pads) ==
  IF length < 0 \/ length > MaxFinitePower THEN Throw("RangeError")
  ELSE LET code == encodeBase62(ModPow62(digest, length))
       IN Return(Substring(PadLeft(code, length, pads), 0, length))

\* generateFromSHA256: the same pipeline on the digest of the other hash
generateFromSHA256(url, length, digest, pads) ==
  IF length < 0 \/ length > MaxFinitePower THEN Throw("RangeError")
  ELSE LET code == encodeBase62(ModPow62(digest, length))
       IN Return(Substring(PadLeft(code, length, pads), 0, length))

\* the for loop of generateRandom over bytes = crypto.randomBytes(length)
RECURSIVE RandomLoop(_, _, _, _)
RandomLoop(bytes, i, length, code) ==
  IF i < length
    THEN RandomLoop(bytes, i + 1, length,
                    code \o <<CharAt(bytes[i + 1] % Radix)>>)
    ELSE code

\* generateRandom; crypto.randomBytes(size) throws a RangeError for size < 0
generateRandom(length, bytes) ==
  IF length < 0 THEN Throw("RangeError")
  ELSE Return(RandomLoop(bytes, 0, length, <<>>))

\* a plausible slip: the code is cut from its front, "substring(0, length)"
GenerateTimestampBasedPrefix(length, timestamp, pads) ==
  LET code == PadRight(encodeBase62(timestamp), length, pads)
  IN Return(Substring(code, 0, length))

\* generateTimestampBased with timestamp = Date.now()
generateTimestampBased(length, timestamp, pads) ==
  LET code == PadRight(encodeBase62(timestamp), length, pads)
  IN Return(Substring(code, Len(code) - length, Len(code)))

\* the default of the length option
DefaultLength == 7

\* the options after destructuring with their defaults; an absent option is
\* undefined and takes the default, an id given as null stays null
OptStrategy(o) == IF o.strategy = "undefined" THEN "random" ELSE o.strategy
OptUrl(o) == IF o.hasUrl THEN o.url ELSE <<>>
OptIdIsNull(o) == o.idKind \in {"undefined", "null"}
OptLength(o) == IF o.hasLength THEN o.length ELSE DefaultLength

\* a plausible slip: the checks of the required inputs are left out
GenerateUnchecked(o, env) ==
  LET strategy == OptStrategy(o)
  IN CASE strategy = "base62" ->
            Return(encodeBase62(IF OptIdIsNull(o) THEN 0 ELSE o.id))
       [] strategy = "md5" ->
            generateFromMD5(OptUrl(o), OptLength(o), env.digest, env.pads)
       [] strategy = "sha256" ->
            generateFromSHA256(OptUrl(o), OptLength(o), env.digest, env.pads)
       [] strategy = "timestamp" ->
            generateTimestampBased(OptLength(o), env.now, env.pads)
       [] OTHER -> generateRandom(OptLength(o), env.bytes)

\* generate(options): env holds what the call reads from its environment
generate(o, env) ==
  LET strategy == OptStrategy(o)
      url == OptUrl(o)
      length == OptLength(o)
  IN CASE strategy = "base62" ->
            IF OptIdIsNull(o) THEN Throw("Error")
            ELSE Return(encodeBase62(o.id))
       [] strategy = "md5" ->
            IF url = <<>> THEN Throw("Error")
            ELSE generateFromMD5(url, length, env.digest, env.pads)
       [] strategy = "sha256" ->
            IF url = <<>> THEN Throw("Error")
            ELSE generateFromSHA256(url, length, env.digest, env.pads)
       [] strategy = "timestamp" ->
            generateTimestampBased(length, env.now, env.pads)
       [] OTHER -> generateRandom(length, env.bytes)

(***************************************************************************)
(* Inputs of the codec                                                     *)
(***************************************************************************)
\* numbers around the powers of 62 above MaxNum, up to 2^31 - 1
LargeNums ==
  { 238327, 238328, 14776335, 14776336, 916132831, 916132832, 2147483647 }

CodecNums == 0..MaxNum \cup LargeNums

\* characters of raw strings: alphabet characters and characters outside it
RawChars == { "0", "1", "9", "a", "b", "Z", "!", "_", "-" }

RECURSIVE StringsUpTo(_, _)
StringsUpTo(chars, n) ==
  IF n = 0 THEN { <<>> }
  ELSE LET shorter == StringsUpTo(chars, n - 1)
       IN shorter \cup { Append(s, c) : s \in shorter, c \in chars }

RawStrings == StringsUpTo(RawChars, MaxStrLen)

VARIABLES
  cPhase,   \* codec: "idle", "encoded", "decoded" (round trip), "raw"
  cNum,     \* codec: the number passed to encodeBase62 (-1: none)
  cStr,     \* codec: the string returned by encodeBase62 or given to decode
  cDec,     \* codec: the outcome of decodeBase62
  gPhase,   \* generator: "idle" before the call of generate, "done" after
  gOpts,    \* generator: the options object passed to generate
  gEnv,     \* generator: what the call read from clock, hash and randomness
  gRes,     \* generator: the outcome of the call
  hPhase,   \* repeated hash calls: "idle", "one" or "two" calls made
  hOpts,    \* repeated hash calls: the options both calls are given
  hFirst,   \* repeated hash calls: input, digest and outcome of call 1
  hSecond,  \* repeated hash calls: input, digest and outcome of call 2
  urls,     \* service: the rows of table urls
  nextId,   \* service: the next value of the sequence behind urls.id
  clock,    \* service: the time new Date() returns, in hours
  req,      \* service: per shorten request, its body, locals and response
  issued,   \* history: every (urlCode, id) a row of urls has been stored with
  details,  \* service: the rows of table click_details
  nextDetailId, \* service: the next value of the sequence of click_details.id
  hit,      \* service: per redirect or track-redirect request, its locals
  edit,     \* service: the edit request, its body, locals and response
  reply,    \* service: the response of the last delete request
  log,      \* history: every insert into click_details
  limiter,  \* service: per address, the counters of the rate limiter
  view      \* service: the response of the last read-only request

codecVars == << cPhase, cNum, cStr, cDec >>

genVars == << gPhase, gOpts, gEnv, gRes >>

hashVars == << hPhase, hOpts, hFirst, hSecond >>

serviceVars == << urls, nextId, clock, req, issued >>

clickVars == << details, nextDetailId, hit, edit, reply, log >>

edgeVars == << limiter, view >>

NoDecode == [error |-> "none", value |-> -1]

\* the caller holds either a number to encode or a raw string to decode
CodecInit ==
  /\ cPhase = "idle"
  /\ cDec = NoDecode
  /\ \/ cNum \in CodecNums /\ cStr = <<>>
     \/ cNum = -1 /\ cStr \in RawStrings

\* encodeBase62(cNum) is called
CodecEncode ==
  /\ cPhase = "idle"
  /\ cNum # -1
  /\ cPhase' = "encoded"
  /\ cStr' = encodeBase62(cNum)
  /\ UNCHANGED << cNum, cDec >>
  /\ UNCHANGED << genVars, hashVars, serviceVars, clickVars, edgeVars >>

\* decodeBase62 is called on the string encodeBase62 returned
CodecDecode ==
  /\ cPhase = "encoded"
  /\ cPhase' = "decoded"
  /\ cDec' = decodeBase62(cStr)
  /\ UNCHANGED << cNum, cStr >>
  /\ UNCHANGED << genVars, hashVars, serviceVars, clickVars, edgeVars >>

\* decodeBase62 is called on the caller's raw string
CodecDecodeRaw ==
  /\ cPhase = "idle"
  /\ cNum = -1
  /\ cPhase' = "raw"
  /\ cDec' = decodeBase62(cStr)
  /\ UNCHANGED << cNum, cStr >>
  /\ UNCHANGED << genVars, hashVars, serviceVars, clickVars, edgeVars >>

CodecNext == CodecEncode \/ CodecDecode \/ CodecDecodeRaw

(***************************************************************************)
(* Calls of generate                                                       *)
(***************************************************************************)
Max(a, b) == IF a >= b THEN a ELSE b

\* a url option: absent, the empty string, or a URL
SomeUrl == << "h", ":", "a" >>
OtherUrl == << "h", ":", "b" >>

\* ids of the base62 strategy
GenIds == 0..MaxNum \cup LargeNums

Opts(strategy, hasUrl, url, idKind, id, hasLength, length) ==
  [strategy |-> strategy, hasUrl |-> hasUrl, url |-> url, idKind |-> idKind,
   id |-> id, hasLength |-> hasLength, length |-> length]

\* the options objects of the modelled callers
Base62Options ==
  { Opts("base62", u[1], u[2], "number", n, FALSE, 0) :
      u \in { <<FALSE, <<>> >>, <<TRUE, SomeUrl>> }, n \in GenIds }
  \cup
  { Opts("base62", FALSE, <<>>, k, 0, l[1], l[2]) :
      k \in {"undefined", "null", "number"},
      l \in { <<FALSE, 0>>, <<TRUE, 0>>, <<TRUE, 2>> } }

\* the length option: absent (the default applies), or -1..MaxLength
LengthOptions == { <<FALSE, 0>> } \cup { <<TRUE, l>> : l \in -1..MaxLength }

HashOptions ==
  { Opts(s, u[1], u[2], k, 0, l[1], l[2]) :
      s \in {"md5", "sha256"},
      u \in { <<FALSE, <<>> >>, <<TRUE, <<>> >>, <<TRUE, SomeUrl>>,
              <<TRUE, OtherUrl>> },
      k \in {"undefined", "number"},
      l \in LengthOptions }

TimestampOptions ==
  { Opts("timestamp", u[1], u[2], "undefined", 0, l[1], l[2]) :
      u \in { <<FALSE, <<>> >>, <<TRUE, SomeUrl>> }, l \in LengthOptions }

RandomOptions ==
  { Opts(s, FALSE, <<>>, k, 0, l[1], l[2]) :
      s \in {"random", "undefined", "nanoid"},
      k \in {"undefined", "number"},
      l \in LengthOptions }

GenOptions ==
  Base62Options \cup HashOptions \cup TimestampOptions \cup RandomOptions

\* Date.now(): values whose encodings have 1 to 6 characters
Clocks == { 5, 125, 3844, 238328, 14776336, 2147483647 }

\* the value of the first 16 hex characters of a digest (below 2^31 here)
Digests == { 0, 61, 62, 3843, 3844, 238327, 238328, 2147483647 }

\* Math.floor(Math.random() * 62) is in 0..61
PadIndexes == { 0, 35, 61 }

\* a byte of crypto.randomBytes is in 0..255
Bytes == { 0, 61, 62, 255 }

NoEnv == [now |-> 0, digest |-> 0, pads |-> <<>>, bytes |-> <<>>]

GenInit ==
  /\ gPhase = "idle"
  /\ gOpts \in GenOptions
  /\ gEnv = NoEnv
  /\ gRes = Throw("none")

\* the clock values and digests a call can read: one that reads none is
\* given a fixed value
ClocksRead(o) ==
  IF OptStrategy(o) = "timestamp" THEN Clocks
  ELSE IF OptStrategy(o) \in {"md5", "sha256"} /\ OptUrl(o) # <<>>
    THEN {5, 125}
  ELSE {0}

DigestsRead(o) ==
  IF OptStrategy(o) \in {"md5", "sha256"} /\ OptUrl(o) # <<>>
    THEN Digests ELSE {0}

\* the number of padding characters the call draws
PadNeed(o, now, digest) ==
  LET s == OptStrategy(o)
      l == OptLength(o)
  IN IF s \in {"md5", "sha256"} /\ OptUrl(o) # <<>> /\ l >= 0
       THEN Max(0, l - Len(encodeBase62(ModPow62(digest, l))))
     ELSE IF s = "timestamp"
       THEN Max(0, l - Len(encodeBase62(now)))
     ELSE 0

\* the number of random bytes the call draws
BytesNeed(o) ==
  IF OptStrategy(o) \in {"base62", "md5", "sha256", "timestamp"}
    THEN 0 ELSE Max(0, OptLength(o))

\* generate(gOpts) is called; clock, digest and random draws are arbitrary
GenCall ==
  /\ gPhase = "idle"
  /\ \E now \in ClocksRead(gOpts), digest \in DigestsRead(gOpts) :
       \E pads \in [1..PadNeed(gOpts, now, digest) -> PadIndexes],
          bytes \in [1..BytesNeed(gOpts) -> Bytes] :
         LET env == [now |-> now, digest |-> digest,
                     pads |-> pads, bytes |-> bytes]
         IN /\ gEnv' = env
            /\ gRes' = generate(gOpts, env)
  /\ gPhase' = "done"
  /\ UNCHANGED gOpts
  /\ UNCHANGED << codecVars, hashVars, serviceVars, clickVars, edgeVars >>

GenNext == GenCall

(***************************************************************************)
(* Repeated calls of a hash strategy for one URL                           *)
(***************************************************************************)
\* String(n) for an integer n >= 0
RECURSIVE NumToString(_)
NumToString(n) ==
  IF n < 10 THEN <<CharAt(n)>>
  ELSE NumToString(n \div 10) \o <<CharAt(n % 10)>>

\* a plausible slip: the URL alone is hashed
HashInputUrlOnly(url, now, random) == url

\* "const input = url + Date.now() + Math.random()", random being the
\* string of the random fraction
HashInput(url, now, random) == url \o NumToString(now) \o random

\* String(Math.random()) for two fractions
RandomStrings == { << "0", ".", "2", "5" >>, << "0", ".", "5" >> }

HashClocks == { 5, 125 }

HashOptions2 ==
  { Opts(s, TRUE, u, "undefined", 0, TRUE, l) :
      s \in {"md5", "sha256"}, u \in {SomeUrl, OtherUrl}, l \in 1..MaxLength }

NoCall == [now |-> 0, input |-> <<>>, digest |-> 0, res |-> Throw("none")]

HashInit ==
  /\ hPhase = "idle"
  /\ hOpts \in HashOptions2
  /\ hFirst = NoCall
  /\ hSecond = NoCall

\* crypto.createHash(..).update(input).digest("hex"), first 16 characters: a
\* function of input, otherwise arbitrary; the same input as in the first
\* call gives the same digest again
DigestsOf(input) ==
  IF hPhase = "one" /\ hFirst.input = input THEN {hFirst.digest} ELSE Digests

\* generate(hOpts) is called (for the first or the second time)
HashCall ==
  /\ hPhase \in {"idle", "one"}
  /\ \E now \in HashClocks, random \in RandomStrings :
       LET input == HashInput(hOpts.url, now, random)
       IN \E digest \in DigestsOf(input) :
            \E pads \in [1..PadNeed(hOpts, now, digest) -> PadIndexes] :
              LET env == [now |-> now, digest |-> digest,
                          pads |-> pads, bytes |-> <<>>]
                  call == [now |-> now, input |-> input, digest |-> digest,
                           res |-> generate(hOpts, env)]
              IN IF hPhase = "idle"
                   THEN hFirst' = call /\ hSecond' = hSecond
                   ELSE hSecond' = call /\ hFirst' = hFirst
  /\ hPhase' = IF hPhase = "idle" THEN "one" ELSE "two"
  /\ UNCHANGED hOpts
  /\ UNCHANGED << codecVars, genVars, serviceVars, clickVars, edgeVars >>

HashNext == HashCall

(***************************************************************************)
(* POST /api/url/shorten over the table urls                               *)
(***************************************************************************)
Requests == 1..MaxRequests

\* request bodies: longUrl values the validators accept and reject
ValidUrls == { "https://a.example", "https://b.example" }
LongUrls == ValidUrls \cup { "", "ftp://a.example" }

\* codes shortid.generate() can return: 7 or more characters of
\* 0-9 a-z A-Z _ -
CodeA == << "a", "b", "C", "1", "2", "3", "x" >>
CodeB == << "k", "_", "9", "-", "Q", "r", "s" >>
ShortIds == { CodeA, CodeB }

\* a custom code no call of shortid.generate() returns here
CodeM == << "m", "y", "-", "a" >>

\* customCode values of request bodies (one equal to a code shortid can
\* return, one no such code, one too short)
CustomCodes == { CodeA, CodeM, << "a", "b" >> }

\* body("longUrl").trim().notEmpty().isURL({protocols: http, https,
\* require_protocol}).isLength({max: 2048}) and validUrl.isUri(longUrl)
LongUrlOk(longUrl) == longUrl \in ValidUrls

\* body("customCode").optional().trim().isLength({min: 3, max: 30})
\*   .matches(/^[a-zA-Z0-9_-]+$/)
CustomCodeOk(hasCustom, customCode) ==
  ~hasCustom
  \/ /\ Len(customCode) >= 3
     /\ Len(customCode) <= 30
     /\ \A i \in 1..Len(customCode) :
          IndexOf(customCode[i]) # -1 \/ customCode[i] \in {"_", "-"}

\* expires_at of a row without expiration
Null == -1

NoRow == [id |-> 0, urlCode |-> <<>>, longUrl |-> "", isCustom |-> FALSE,
          expiresAt |-> Null, clicks |-> 0, lastClickedAt |-> Null]

\* "let expiresAt = null; if (expiresIn) { expiresAt = new Date();
\* expiresAt.setHours(expiresAt.getHours() + parseInt(expiresIn)) }"
ExpiresAt(expiresIn) == IF expiresIn = 0 THEN Null ELSE clock + expiresIn

\* supabaseQuery.single(): the row when exactly one matches; PGRST116 (no
\* row, or several) makes findOne return null
Single(rows) ==
  IF Cardinality(rows) = 1 THEN CHOOSE row \in rows : TRUE ELSE NoRow

\* a plausible slip: the lookup of a code leaves out the expired rows
FindOneByCodeLive(urlCode) ==
  Single({ row \in urls : /\ row.urlCode = urlCode
                          /\ ~(row.expiresAt # Null /\ row.expiresAt < clock) })

\* UrlModel.findOne({ urlCode }) and UrlModel.findOne({ longUrl })
FindOneByCode(urlCode) == Single({ row \in urls : row.urlCode = urlCode })
FindOneByLongUrl(longUrl) == Single({ row \in urls : row.longUrl = longUrl })

\* a plausible slip: the column url_code is not declared UNIQUE
UniqueViolationNever(urlCode) == FALSE

\* url_code VARCHAR(30) NOT NULL UNIQUE: an insert of a code a row holds is
\* refused with error 23505
UniqueViolation(urlCode) == \E row \in urls : row.urlCode = urlCode

\* the (urlCode, id) pairs of a set of rows
Issued(rows) == { [urlCode |-> row.urlCode, id |-> row.id] : row \in rows }

\* a request slot with no request in it
Idle ==
  [pc |-> "idle", longUrl |-> "", hasCustom |-> FALSE, customCode |-> <<>>,
   expiresIn |-> 0, urlCode |-> <<>>, isCustom |-> FALSE,
   expiresAt |-> Null, attempts |-> 0, collisions |-> 0, status |-> 0,
   via |-> "", created |-> 0]

ShortenInit ==
  /\ urls = {}
  /\ nextId = 1
  /\ clock = 0
  /\ req = [r \in Requests |-> Idle]
  /\ issued = {}

\* the response is sent: the handler of request r ends
Respond(r, status, via, created) ==
  req' = [req EXCEPT ![r].pc = "done", ![r].status = status, ![r].via = via,
                     ![r].created = created]

\* A request arrives and runs to its first await: the validation chain
\* (400), then the branch on customCode.  Requests are numbered in their
\* order of arrival.
Receive(r) ==
  /\ req[r].pc = "idle"
  /\ IF r = 1 THEN TRUE ELSE req[r - 1].pc # "idle"
  /\ \E longUrl \in LongUrls, hasCustom \in BOOLEAN, expiresIn \in {0, 1} :
       \E customCode \in IF hasCustom THEN CustomCodes ELSE { <<>> } :
         LET body == [Idle EXCEPT !.longUrl = longUrl,
                                  !.hasCustom = hasCustom,
                                  !.customCode = customCode,
                                  !.expiresIn = expiresIn]
         IN IF ~LongUrlOk(longUrl) \/ ~CustomCodeOk(hasCustom, customCode)
              THEN req' = [req EXCEPT ![r] =
                             [body EXCEPT !.pc = "done", !.status = 400,
                                          !.via = "validation"]]
              ELSE req' = [req EXCEPT ![r] =
                             [body EXCEPT !.pc = IF hasCustom
                                                   THEN "checkCustom"
                                                   ELSE "dedup"]]
  /\ UNCHANGED << urls, nextId, clock, issued >>
  /\ UNCHANGED << codecVars, genVars, hashVars, clickVars, edgeVars >>

\* "const url = await Url.findOne({ longUrl })": answer 200 with the row
\* found, or go on to generate a code
DedupLookup(r) ==
  /\ req[r].pc = "dedup"
  /\ IF FindOneByLongUrl(req[r].longUrl) # NoRow
       THEN Respond(r, 200, "dedup", 0)
       ELSE req' = [req EXCEPT ![r].pc = "gen"]
  /\ UNCHANGED << urls, nextId, clock, issued >>
  /\ UNCHANGED << codecVars, genVars, hashVars, clickVars, edgeVars >>

\* "const existingUrl = await Url.findOne({ urlCode: customCode })": answer
\* 409 when taken, else urlCode = customCode and isCustom = true, and
\* expiresAt is computed before Url.create is called
CheckCustom(r) ==
  /\ req[r].pc = "checkCustom"
  /\ IF FindOneByCode(req[r].customCode) # NoRow
       THEN Respond(r, 409, "customTaken", 0)
       ELSE req' = [req EXCEPT ![r].pc = "create",
                               ![r].urlCode = req[r].customCode,
                               ![r].isCustom = TRUE,
                               ![r].expiresAt = ExpiresAt(req[r].expiresIn)]
  /\ UNCHANGED << urls, nextId, clock, issued >>
  /\ UNCHANGED << codecVars, genVars, hashVars, clickVars, edgeVars >>

\* a plausible slip: the code is looked up once and used whatever the
\* lookup found
LoopAgainNever(existingCode) == FALSE

\* "while (existingCode)": the loop goes on as long as the lookup finds a row
LoopAgain(existingCode) == existingCode # NoRow

\* "urlCode = shortid.generate(); existingCode = await Url.findOne({urlCode})"
\* before the loop and in each turn of it; after the loop expiresAt is
\* computed before Url.create is called
GenerateUpTo(r, cap) ==
  /\ req[r].pc = "gen"
  /\ req[r].attempts < cap
  /\ \E urlCode \in ShortIds :
       LET existingCode == FindOneByCode(urlCode)
       IN req' = [req EXCEPT
                    ![r].urlCode = urlCode,
                    ![r].attempts = @ + 1,
                    ![r].collisions = IF existingCode # NoRow THEN @ + 1 ELSE @,
                    ![r].pc = IF LoopAgain(existingCode) THEN "gen"
                              ELSE "create",
                    ![r].expiresAt = IF LoopAgain(existingCode) THEN @
                                     ELSE ExpiresAt(req[r].expiresIn)]
  /\ UNCHANGED << urls, nextId, clock, issued >>
  /\ UNCHANGED << codecVars, genVars, hashVars, clickVars, edgeVars >>

\* "await Url.create({...})": the insert; error 23505 is answered 409, a
\* stored row 201
Create(r) ==
  /\ req[r].pc = "create"
  /\ IF UniqueViolation(req[r].urlCode)
       THEN /\ Respond(r, 409, "conflict", 0)
            /\ UNCHANGED << urls, nextId, clock, issued >>
       ELSE /\ urls' = urls \cup
                 { [id |-> nextId, urlCode |-> req[r].urlCode,
                    longUrl |-> req[r].longUrl, isCustom |-> req[r].isCustom,
                    expiresAt |-> req[r].expiresAt,
                    clicks |-> 0, lastClickedAt |-> Null] }
            /\ issued' = issued \cup
                 { [urlCode |-> req[r].urlCode, id |-> nextId] }
            /\ nextId' = nextId + 1
            /\ Respond(r, 201, "created", nextId)
            /\ UNCHANGED clock
  /\ UNCHANGED << codecVars, genVars, hashVars, clickVars, edgeVars >>

Generate(r) == GenerateUpTo(r, AttemptCap)

\* an hour passes
Tick ==
  /\ clock < MaxClock
  /\ clock' = clock + 1
  /\ UNCHANGED << urls, nextId, req, issued >>
  /\ UNCHANGED << codecVars, genVars, hashVars, clickVars, edgeVars >>

ShortenNext ==
  \/ \E r \in Requests :
       \/ Receive(r)
       \/ DedupLookup(r)
       \/ CheckCustom(r)
       \/ Generate(r)
       \/ Create(r)
  \/ Tick

\* A single request over a table that holds rows of earlier requests.
PriorRows ==
  { [id |-> 1, urlCode |-> CodeA, longUrl |-> "https://a.example",
     isCustom |-> FALSE, expiresAt |-> Null, clicks |-> 0,
     lastClickedAt |-> Null],
    [id |-> 2, urlCode |-> CodeB, longUrl |-> "https://a.example",
     isCustom |-> TRUE, expiresAt |-> 1, clicks |-> 0,
     lastClickedAt |-> Null] }

RetryInit ==
  /\ urls \in SUBSET PriorRows
  /\ nextId = 3
  /\ clock = 0
  /\ req = [r \in Requests |-> Idle]
  /\ issued = Issued(urls)

RetryGenerate(r) == GenerateUpTo(r, RetryCap)

RetryNext ==
  \/ Receive(1)
  \/ DedupLookup(1)
  \/ CheckCustom(1)
  \/ RetryGenerate(1)
  \/ Create(1)
  \/ Tick

(***************************************************************************)
(* Edit, delete, redirect and click recording over urls and click_details  *)
(***************************************************************************)

\* urlCode values of requests: the codes of the two stored links and one
\* the validators reject
UrlCodes == { CodeA, CodeM, << "a", "!" >> }

\* param("urlCode").trim().notEmpty().matches(/^[a-zA-Z0-9_-]+$/)
UrlCodeOk(urlCode) ==
  /\ Len(urlCode) >= 1
  /\ \A i \in 1..Len(urlCode) :
       IndexOf(urlCode[i]) # -1 \/ urlCode[i] \in {"_", "-"}

\* the links stored when the model starts: a generated one that never
\* expires, with n clicks recorded in hour 0, and a custom one for the same
\* longUrl that expires at the end of hour 0
LinkA(n) ==
  [id |-> 1, urlCode |-> CodeA, longUrl |-> "https://a.example",
   isCustom |-> FALSE, expiresAt |-> Null, clicks |-> n,
   lastClickedAt |-> IF n = 0 THEN Null ELSE 0]

LinkB ==
  [id |-> 2, urlCode |-> CodeM, longUrl |-> "https://a.example",
   isCustom |-> TRUE, expiresAt |-> 0, clicks |-> 0, lastClickedAt |-> Null]

\* the click_details rows of the first n clicks of a link
DetailsOf(urlId, n) ==
  { [id |-> k, urlId |-> urlId, timestamp |-> 0] : k \in 1..n }

\* a plausible slip: the test of expiresAt has no guard for null
ExpiredUnguarded(url) == url.expiresAt < clock

\* a plausible slip: the redirect does not look at expiresAt
ExpiredNever(url) == FALSE

\* "url.expiresAt && new Date(url.expiresAt) < new Date()" of GET /:urlCode
Expired(url) == url.expiresAt # Null /\ url.expiresAt < clock

\* "new Date() > url.expiresAt": _formatUrl hands on expires_at as it is in
\* the reply of the store, an ISO-8601 text; ">" converts the Date to its
\* time value and the text with ToNumber, which gives NaN for such a text,
\* and every comparison with NaN is false
DateAfterText(now, text) == FALSE

\* "url.expiresAt && new Date() > url.expiresAt" of edit and track-redirect
ExpiredAsCompared(url) ==
  url.expiresAt # Null /\ DateAfterText(clock, url.expiresAt)

\* config.defaultExpirationHours (DEFAULT_URL_EXPIRATION_HOURS, else 720)
DefaultExpirationHours == 1

\* a slot with no redirect or track-redirect request in it
NoHit ==
  [pc |-> "idle", kind |-> "", urlCode |-> <<>>, status |-> 0, urlId |-> 0,
   timestamp |-> Null, toDelete |-> {}]

NoEdit ==
  [pc |-> "idle", urlCode |-> <<>>, longUrl |-> "", resetExpiration |-> "",
   expiresAt |-> Null, status |-> 0]

NoReply == [op |-> "", urlCode |-> <<>>, status |-> 0]

\* the handler of request c answers with status and ends
Answer(c, h, status) ==
  hit' = [hit EXCEPT ![c] = [NoHit EXCEPT !.pc = "done", !.kind = h.kind,
                                          !.urlCode = h.urlCode,
                                          !.status = status]]

\* GET /:urlCode: 400, 404 or 410, else the redirect 302 is sent and
\* Url.recordClick(urlCode, clickData) runs on in the background
GetUrlCode(c) ==
  /\ hit[c].pc = "idle"
  /\ IF c = 1 THEN TRUE ELSE hit[c - 1].pc # "idle"
  /\ \E urlCode \in UrlCodes :
       LET h == [NoHit EXCEPT !.kind = "redirect", !.urlCode = urlCode]
           url == FindOneByCode(urlCode)
       IN IF ~UrlCodeOk(urlCode) THEN Answer(c, h, 400)
          ELSE IF url = NoRow THEN Answer(c, h, 404)
          ELSE IF Expired(url) THEN Answer(c, h, 410)
          ELSE hit' = [hit EXCEPT ![c] =
                         [h EXCEPT !.pc = "recordFind", !.status = 302]]
  /\ UNCHANGED << details, nextDetailId, edit, reply, log >>
  /\ UNCHANGED << codecVars, genVars, hashVars, serviceVars, edgeVars >>

\* POST /api/url/track-redirect: 400, 404 or 410, else clickData.timestamp
\* = new Date() and "await Url.recordClick(urlCode, clickData)"
TrackRedirect(c) ==
  /\ hit[c].pc = "idle"
  /\ IF c = 1 THEN TRUE ELSE hit[c - 1].pc # "idle"
  /\ \E urlCode \in UrlCodes :
       LET h == [NoHit EXCEPT !.kind = "track", !.urlCode = urlCode]
           url == FindOneByCode(urlCode)
       IN IF ~UrlCodeOk(urlCode) THEN Answer(c, h, 400)
          ELSE IF url = NoRow THEN Answer(c, h, 404)
          ELSE IF ExpiredAsCompared(url) THEN Answer(c, h, 410)
          ELSE hit' = [hit EXCEPT ![c] =
                         [h EXCEPT !.pc = "recordFind", !.timestamp = clock]]
  /\ UNCHANGED << details, nextDetailId, edit, reply, log >>
  /\ UNCHANGED << codecVars, genVars, hashVars, serviceVars, edgeVars >>

\* recordClick throws: track-redirect answers 500, the redirect (already
\* answered 302) logs the error
Thrown(c) ==
  Answer(c, hit[c], IF hit[c].kind = "track" THEN 500 ELSE hit[c].status)

\* recordClick: "const url = await this.findOne({ urlCode });
\* if (!url) throw new Error("URL not found")"
RecordClickFindOne(c) ==
  /\ hit[c].pc = "recordFind"
  /\ LET url == FindOneByCode(hit[c].urlCode)
     IN IF url = NoRow THEN Thrown(c)
        ELSE hit' = [hit EXCEPT ![c].pc = "recordSelect", ![c].urlId = url.id]
  /\ UNCHANGED << details, nextDetailId, edit, reply, log >>
  /\ UNCHANGED << codecVars, genVars, hashVars, serviceVars, edgeVars >>

\* "timestamp: clickData.timestamp || new Date().toISOString()"
Timestamp(h) == IF h.timestamp # Null THEN h.timestamp ELSE clock

\* "existingClicks.slice(0, existingClicks.length - 99)" of the rows in
\* ascending order of timestamp (rows of one timestamp in any order): the
\* sets of rows the slice can be, all but keep rows
ToDelete(existingClicks, keep) ==
  { toDelete \in SUBSET existingClicks :
      /\ Cardinality(toDelete) = Cardinality(existingClicks) - keep
      /\ \A d \in toDelete, e \in existingClicks \ toDelete :
           d.timestamp <= e.timestamp }

\* a plausible slip: at the limit recordClick gives up instead of trimming
RecordClickRefusesWhenFull(c) ==
  /\ hit[c].pc = "recordSelect"
  /\ LET existingClicks == { d \in details : d.urlId = hit[c].urlId }
     IN IF Cardinality(existingClicks) >= RetentionLimit
          THEN Thrown(c)
          ELSE hit' = [hit EXCEPT ![c].pc = "recordInsert",
                                  ![c].timestamp = Timestamp(hit[c])]
  /\ UNCHANGED << details, nextDetailId, edit, reply, log >>
  /\ UNCHANGED << codecVars, genVars, hashVars, serviceVars, edgeVars >>

\* recordClick: the select of the link's click_details, then
\* "if (existingClicks && existingClicks.length >= 100)" the ids to delete;
\* without a delete the row to insert is built at once
RecordClickSelect(c) ==
  /\ hit[c].pc = "recordSelect"
  /\ LET existingClicks == { d \in details : d.urlId = hit[c].urlId }
     IN IF Cardinality(existingClicks) >= RetentionLimit
          THEN \E toDelete \in ToDelete(existingClicks, RetentionLimit - 1) :
                 hit' = [hit EXCEPT ![c].pc = "recordDelete",
                                    ![c].toDelete = { d.id : d \in toDelete }]
          ELSE hit' = [hit EXCEPT ![c].pc = "recordInsert",
                                  ![c].timestamp = Timestamp(hit[c])]
  /\ UNCHANGED << details, nextDetailId, edit, reply, log >>
  /\ UNCHANGED << codecVars, genVars, hashVars, serviceVars, edgeVars >>

\* recordClick: "delete().in("id", idsToDelete)", then the row to insert is
\* built
RecordClickDelete(c) ==
  /\ hit[c].pc = "recordDelete"
  /\ details' = { d \in details : d.id \notin hit[c].toDelete }
  /\ hit' = [hit EXCEPT ![c].pc = "recordInsert",
                        ![c].timestamp = Timestamp(hit[c])]
  /\ UNCHANGED << nextDetailId, edit, reply, log >>
  /\ UNCHANGED << codecVars, genVars, hashVars, serviceVars, edgeVars >>

\* a plausible slip: url_id is declared without REFERENCES urls(id)
ForeignKeyViolationNever(urlId) == FALSE

\* "url_id BIGINT NOT NULL REFERENCES urls(id)": an insert for an id no row
\* of urls has is refused
ForeignKeyViolation(urlId) == \A row \in urls : row.id # urlId

\* a plausible slip: the trigger counts the stored rows of the link
TriggerCountsStored(new) ==
  { IF row.id = new.urlId
      THEN [row EXCEPT !.lastClickedAt = new.timestamp,
                       !.clicks = Cardinality({ d \in details :
                                                  d.urlId = new.urlId }) + 1]
      ELSE row : row \in urls }

\* trigger_update_clicks AFTER INSERT ON click_details:
\* "UPDATE urls SET last_clicked_at = NEW.timestamp, clicks = clicks + 1
\*  WHERE id = NEW.url_id"
update_last_clicked_at(new) ==
  { IF row.id = new.urlId
      THEN [row EXCEPT !.lastClickedAt = new.timestamp, !.clicks = @ + 1]
      ELSE row : row \in urls }

\* recordClick: the insert into click_details with its trigger; an error is
\* thrown, else track-redirect answers 200
RecordClickInsert(c) ==
  /\ hit[c].pc = "recordInsert"
  /\ IF ForeignKeyViolation(hit[c].urlId)
       THEN /\ Thrown(c)
            /\ UNCHANGED << urls, details, nextDetailId, log >>
       ELSE LET new == [id |-> nextDetailId, urlId |-> hit[c].urlId,
                        timestamp |-> hit[c].timestamp]
            IN /\ details' = details \cup { new }
               /\ nextDetailId' = nextDetailId + 1
               /\ urls' = update_last_clicked_at(new)
               /\ log' = log \cup
                    { [id |-> new.id, urlId |-> new.urlId,
                       timestamp |-> new.timestamp,
                       expired |-> \E row \in urls :
                                     /\ row.id = new.urlId
                                     /\ row.expiresAt # Null
                                     /\ row.expiresAt < clock] }
               /\ Answer(c, hit[c],
                         IF hit[c].kind = "track" THEN 200 ELSE hit[c].status)
  /\ UNCHANGED << nextId, clock, req, issued, edit, reply >>
  /\ UNCHANGED << codecVars, genVars, hashVars, edgeVars >>

\* bodies of edit requests: urlCode, longUrl and resetExpiration
EditBodies ==
  UrlCodes \X { "https://b.example", "" } \X { "undefined", "true", "false" }

\* PUT /api/url/edit/:urlCode up to "await Url.update(urlCode, updates)":
\* 400, 404 or 410, else updates = { longUrl } and, when resetExpiration is
\* true or undefined, updates.expiresAt = now + defaultExpirationHours
EditOf(bodies) ==
  /\ edit.pc = "idle"
  /\ \E body \in bodies :
       LET urlCode == body[1]
           longUrl == body[2]
           resetExpiration == body[3]
           e == [NoEdit EXCEPT !.urlCode = urlCode, !.longUrl = longUrl,
                               !.resetExpiration = resetExpiration]
           url == FindOneByCode(urlCode)
           status == IF ~UrlCodeOk(urlCode) \/ ~LongUrlOk(longUrl) THEN 400
                     ELSE IF url = NoRow THEN 404
                     ELSE IF ExpiredAsCompared(url) THEN 410
                     ELSE 0
       IN edit' = IF status # 0
                    THEN [e EXCEPT !.pc = "done", !.status = status]
                    ELSE [e EXCEPT !.pc = "update",
                                   !.expiresAt =
                                     IF resetExpiration = "false" THEN Null
                                     ELSE clock + DefaultExpirationHours]
  /\ UNCHANGED << details, nextDetailId, hit, reply, log >>
  /\ UNCHANGED << codecVars, genVars, hashVars, serviceVars, edgeVars >>

EditFind == EditOf(EditBodies)

\* a plausible slip: expires_at is written whatever resetExpiration is
UpdateExpiresAlways(url, e) ==
  [url EXCEPT !.longUrl = e.longUrl, !.expiresAt = e.expiresAt]

\* UrlModel.update: long_url, and expires_at when updates.expiresAt is not
\* undefined; clicks and last_clicked_at are not among the updates of edit
Update(url, e) ==
  [url EXCEPT !.longUrl = e.longUrl,
              !.expiresAt = IF e.resetExpiration = "false" THEN @
                            ELSE e.expiresAt]

\* "const updatedUrl = await Url.update(urlCode, updates)": 200, or 500
\* when .single() finds no updated row
EditUpdate ==
  /\ edit.pc = "update"
  /\ LET found == { row \in urls : row.urlCode = edit.urlCode }
     IN /\ urls' = (urls \ found) \cup { Update(row, edit) : row \in found }
        /\ edit' = [edit EXCEPT !.pc = "done",
                                !.status = IF found = {} THEN 500 ELSE 200]
  /\ UNCHANGED << nextId, clock, req, issued >>
  /\ UNCHANGED << details, nextDetailId, hit, reply, log >>
  /\ UNCHANGED << codecVars, genVars, hashVars, edgeVars >>

\* "REFERENCES urls(id) ON DELETE CASCADE": the click_details left when
\* the rows deleted of urls are gone
Cascade(deleted) ==
  { d \in details : \A row \in deleted : d.urlId # row.id }

\* DELETE /api/url/:urlCode: 400, else Url.delete(urlCode) deletes the row
\* of the code; 404 when .single() finds no deleted row, else 200
DeleteOf(urlCodes) ==
  /\ \E urlCode \in urlCodes :
       LET deleted == IF UrlCodeOk(urlCode)
                        THEN { row \in urls : row.urlCode = urlCode }
                        ELSE {}
       IN /\ urls' = urls \ deleted
          /\ details' = Cascade(deleted)
          /\ reply' = [op |-> "delete", urlCode |-> urlCode,
                       status |-> IF ~UrlCodeOk(urlCode) THEN 400
                                  ELSE IF Single(deleted) = NoRow THEN 404
                                  ELSE 200]
  /\ UNCHANGED << nextId, clock, req, issued >>
  /\ UNCHANGED << nextDetailId, hit, edit, log >>
  /\ UNCHANGED << codecVars, genVars, hashVars, edgeVars >>

DeleteUrl == DeleteOf(UrlCodes)

\* The link lifecycle: shorten, edit and delete requests over the two
\* stored links, the first clicked once.
LinksInit ==
  /\ urls = { LinkA(1), LinkB }
  /\ nextId = 3
  /\ clock = 0
  /\ req = [r \in Requests |-> Idle]
  /\ issued = Issued(urls)
  /\ details = DetailsOf(1, 1)
  /\ nextDetailId = 2
  /\ hit = [c \in Requests |-> NoHit]
  /\ edit = NoEdit
  /\ reply = NoReply
  /\ log = { [id |-> d.id, urlId |-> d.urlId, timestamp |-> d.timestamp,
              expired |-> FALSE] : d \in details }

LinksNext ==
  \/ Receive(1)
  \/ DedupLookup(1)
  \/ CheckCustom(1)
  \/ Generate(1)
  \/ Create(1)
  \/ EditFind
  \/ EditUpdate
  \/ DeleteUrl
  \/ Tick

\* the shorten request that stores the second link, about to call
\* Url.create
PendingB ==
  [Idle EXCEPT !.pc = "create", !.longUrl = LinkB.longUrl,
               !.hasCustom = TRUE, !.customCode = LinkB.urlCode,
               !.expiresIn = 1, !.urlCode = LinkB.urlCode, !.isCustom = TRUE,
               !.expiresAt = LinkB.expiresAt, !.attempts = 0]

\* Clicks: redirect and track-redirect requests, with an edit and deletes,
\* over the first link, with up to RetentionLimit clicks, and the second,
\* whose shorten request is about to store it.
ClicksInit ==
  /\ \E n \in 0..RetentionLimit :
       /\ urls = { LinkA(n) }
       /\ details = DetailsOf(1, n)
       /\ nextDetailId = n + 1
       /\ log = { [id |-> d.id, urlId |-> d.urlId, timestamp |-> d.timestamp,
                   expired |-> FALSE] : d \in DetailsOf(1, n) }
  /\ nextId = LinkB.id
  /\ clock = 0
  /\ req = [r \in Requests |-> IF r = 1 THEN PendingB ELSE Idle]
  /\ issued = Issued(urls)
  /\ hit = [c \in Requests |-> NoHit]
  /\ edit = NoEdit
  /\ reply = NoReply

\* the edit and the deletes that run beside the clicks: of the first link
ClickEdit == EditOf({ << CodeA, "https://b.example", "undefined" >> })

ClickDelete == DeleteOf({ CodeA })

ClicksNext ==
  \/ Create(1)
  \/ \E c \in Requests :
       \/ GetUrlCode(c)
       \/ TrackRedirect(c)
       \/ RecordClickFindOne(c)
       \/ RecordClickSelect(c)
       \/ RecordClickDelete(c)
       \/ RecordClickInsert(c)
  \/ ClickEdit
  \/ EditUpdate
  \/ ClickDelete
  \/ Tick

(***************************************************************************)
(* index.js: the rate limiters                                             *)
(***************************************************************************)
\* the addresses requests come from (the key of the limiter is req.ip)
Addresses == { "10.0.0.1", "10.0.0.2" }

\* shortenLimiter is built and kept with app.set("shortenLimiter", ...);
\* no app.use and no route takes it, POST /api/url/shorten has the
\* validators and the handler only
ShortenLimiterMounted == FALSE

\* per address: requests counted in the window, POST /api/url/shorten
\* requests that passed the limiter of all routes, those handed to the
\* handler, and the last answer (429, or 0 when the request went on)
NoCount == [hits |-> 0, shortens |-> 0, handled |-> 0, status |-> 0]

LimitInit == limiter = [ip \in Addresses |-> NoCount]

\* rateLimit({ max }): the request is counted and refused when the count of
\* the window exceeds max
Refused(count, max) == count > max

\* a POST /api/url/shorten arrives from ip: app.use(limiter), then the
\* route
ArriveShorten(ip) ==
  /\ limiter[ip].hits <= GlobalMax
  /\ LET l == limiter[ip]
         hits == l.hits + 1
         shortens == l.shortens + 1
     IN limiter' = [limiter EXCEPT ![ip] =
          IF Refused(hits, GlobalMax)
            THEN [l EXCEPT !.hits = hits, !.status = 429]
          ELSE IF ShortenLimiterMounted /\ Refused(shortens, ShortenMax)
            THEN [l EXCEPT !.hits = hits, !.shortens = shortens,
                           !.status = 429]
          ELSE [l EXCEPT !.hits = hits, !.shortens = shortens,
                         !.handled = @ + 1, !.status = 0]]
  /\ UNCHANGED view
  /\ UNCHANGED << codecVars, genVars, hashVars, serviceVars, clickVars >>

\* a request for any other route arrives from ip: app.use(limiter)
ArriveOther(ip) ==
  /\ limiter[ip].hits <= GlobalMax
  /\ LET l == limiter[ip]
         hits == l.hits + 1
     IN limiter' = [limiter EXCEPT ![ip] =
          [l EXCEPT !.hits = hits,
                    !.status = IF Refused(hits, GlobalMax) THEN 429 ELSE 0]]
  /\ UNCHANGED view
  /\ UNCHANGED << codecVars, genVars, hashVars, serviceVars, clickVars >>

\* windowMs have passed for ip: its counters start again
WindowEnds(ip) ==
  /\ limiter[ip].hits > 0
  /\ limiter' = [limiter EXCEPT ![ip] = NoCount]
  /\ UNCHANGED view
  /\ UNCHANGED << codecVars, genVars, hashVars, serviceVars, clickVars >>

LimitNext ==
  \E ip \in Addresses :
    \/ ArriveShorten(ip)
    \/ ArriveOther(ip)
    \/ WindowEnds(ip)

(***************************************************************************)
(* The read-only endpoints: stats, details, info and qrcode                *)
(***************************************************************************)
NoView ==
  [op |-> "", urlCode |-> <<>>, status |-> 0,
   expirationInfo |-> "", isExpired |-> FALSE, remainingHours |-> 0,
   totalClicks |-> 0]

\* "url.expiresAt.getTime()": expiresAt is the text _formatUrl hands on, a
\* text has no method getTime and the call throws a TypeError
HasGetTime(expiresAt) == FALSE

\* GET /api/url/stats/:urlCode after the lookup
Stats(v, url) ==
  [v EXCEPT !.status = 200, !.totalClicks = url.clicks]

\* GET /api/url/details/:urlCode after the lookup: expirationInfo is null
\* for a link without expiresAt; "remainingMs = url.expiresAt.getTime() -
\* now.getTime(); isExpired = remainingMs <= 0"; 500 from the catch block
Details(v, url) ==
  IF url.expiresAt = Null
    THEN [v EXCEPT !.status = 200, !.expirationInfo = "null",
                   !.totalClicks = url.clicks]
  ELSE IF ~HasGetTime(url.expiresAt) THEN [v EXCEPT !.status = 500]
  ELSE LET remaining == url.expiresAt - clock
       IN [v EXCEPT !.status = 200, !.expirationInfo = "set",
                    !.isExpired = (remaining <= 0),
                    !.remainingHours = IF remaining <= 0 THEN 0
                                       ELSE remaining,
                    !.totalClicks = url.clicks]

\* GET /api/url/info/:urlCode and GET /api/url/qrcode/:urlCode after the
\* lookup: "if (url.expiresAt && new Date() > url.expiresAt)" 410
Info(v, url) ==
  IF ExpiredAsCompared(url) THEN [v EXCEPT !.status = 410]
  ELSE [v EXCEPT !.status = 200]

\* the response of the read-only endpoint op for urlCode in this state
Get(op, urlCode) ==
  LET v == [NoView EXCEPT !.op = op, !.urlCode = urlCode]
      url == FindOneByCode(urlCode)
  IN IF ~UrlCodeOk(urlCode) THEN [v EXCEPT !.status = 400]
     ELSE IF url = NoRow THEN [v EXCEPT !.status = 404]
     ELSE CASE op = "stats" -> Stats(v, url)
            [] op = "details" -> Details(v, url)
            [] OTHER -> Info(v, url)

\* a read-only request is served
View ==
  /\ \E op \in { "stats", "details", "info", "qrcode" },
        urlCode \in UrlCodes \cup { CodeB } :
       view' = Get(op, urlCode)
  /\ UNCHANGED limiter
  /\ UNCHANGED << codecVars, genVars, hashVars, serviceVars, clickVars >>

\* a shorten request without customCode and without expiresIn that has
\* passed the lookup of its longUrl
PendingC ==
  [Idle EXCEPT !.pc = "gen", !.longUrl = "https://b.example"]

\* the two stored links, the first with RetentionLimit clicks, and the
\* shorten request
ViewsInit ==
  /\ urls = { LinkA(RetentionLimit), LinkB }
  /\ details = DetailsOf(1, RetentionLimit)
  /\ nextDetailId = RetentionLimit + 1
  /\ log = { [id |-> d.id, urlId |-> d.urlId, timestamp |-> d.timestamp,
              expired |-> FALSE] : d \in details }
  /\ nextId = 3
  /\ clock = 0
  /\ req = [r \in Requests |-> IF r = 1 THEN PendingC ELSE Idle]
  /\ issued = Issued(urls)
  /\ hit = [c \in Requests |-> NoHit]
  /\ edit = NoEdit
  /\ reply = NoReply

ViewsNext ==
  \/ Generate(1)
  \/ Create(1)
  \/ GetUrlCode(1)
  \/ TrackRedirect(1)
  \/ RecordClickFindOne(1)
  \/ RecordClickSelect(1)
  \/ RecordClickDelete(1)
  \/ RecordClickInsert(1)
  \/ ClickEdit
  \/ EditUpdate
  \/ DeleteOf({ CodeM })
  \/ Tick
  \/ View

vars ==
  << cPhase, cNum, cStr, cDec, gPhase, gOpts, gEnv, gRes,
     hPhase, hOpts, hFirst, hSecond, urls, nextId, clock, req, issued,
     details, nextDetailId, hit, edit, reply, log, limiter, view >>

NoOpts == Opts("undefined", FALSE, <<>>, "undefined", 0, FALSE, 0)

CodecIdle == cPhase = "idle" /\ cNum = -1 /\ cStr = <<>> /\ cDec = NoDecode

GenIdle ==
  gPhase = "idle" /\ gOpts = NoOpts /\ gEnv = NoEnv /\ gRes = Throw("none")

HashIdle ==
  hPhase = "idle" /\ hOpts = NoOpts /\ hFirst = NoCall /\ hSecond = NoCall

ServiceIdle == ShortenInit

ClickIdle ==
  /\ details = {}
  /\ nextDetailId = 1
  /\ hit = [c \in Requests |-> NoHit]
  /\ edit = NoEdit
  /\ reply = NoReply
  /\ log = {}

\* the codec alone
InitCodec ==
  CodecInit /\ GenIdle /\ HashIdle /\ ServiceIdle /\ ClickIdle
  /\ LimitInit /\ view = NoView

SpecCodec == InitCodec /\ [][CodecNext]_vars

\* calls of generate
InitGen ==
  GenInit /\ CodecIdle /\ HashIdle /\ ServiceIdle /\ ClickIdle
  /\ LimitInit /\ view = NoView

SpecGen == InitGen /\ [][GenNext]_vars

\* two calls of a hash strategy with the same options
InitHash ==
  HashInit /\ CodecIdle /\ GenIdle /\ ServiceIdle /\ ClickIdle
  /\ LimitInit /\ view = NoView

SpecHash == InitHash /\ [][HashNext]_vars

\* the service: concurrent shorten requests
Init ==
  ShortenInit /\ CodecIdle /\ GenIdle /\ HashIdle /\ ClickIdle
  /\ LimitInit /\ view = NoView

Next == ShortenNext

Spec == Init /\ [][Next]_vars

\* the service: one shorten request after earlier ones
InitRetry ==
  RetryInit /\ CodecIdle /\ GenIdle /\ HashIdle /\ ClickIdle
  /\ LimitInit /\ view = NoView

SpecRetry == InitRetry /\ [][RetryNext]_vars

\* the service: the lifecycle of links
InitLinks ==
  LinksInit /\ CodecIdle /\ GenIdle /\ HashIdle
  /\ LimitInit /\ view = NoView

SpecLinks == InitLinks /\ [][LinksNext]_vars

\* the service: redirects and click recording
InitClicks ==
  ClicksInit /\ CodecIdle /\ GenIdle /\ HashIdle
  /\ LimitInit /\ view = NoView

SpecClicks == InitClicks /\ [][ClicksNext]_vars

\* a call of recordClick goes on: each of its awaits returns
RecordClick(c) ==
  \/ RecordClickFindOne(c)
  \/ RecordClickSelect(c)
  \/ RecordClickDelete(c)
  \/ RecordClickInsert(c)

\* redirects and click recording, every call of recordClick running on
SpecClicksFair ==
  /\ InitClicks
  /\ [][ClicksNext]_vars
  /\ \A c \in Requests : WF_vars(RecordClick(c))

\* the service: the read-only endpoints beside the others
InitViews ==
  ViewsInit /\ CodecIdle /\ GenIdle /\ HashIdle
  /\ LimitInit /\ view = NoView

SpecViews == InitViews /\ [][ViewsNext]_vars

\* the service: the rate limiter
InitLimit ==
  LimitInit /\ view = NoView
  /\ CodecIdle /\ GenIdle /\ HashIdle /\ ServiceIdle /\ ClickIdle

SpecLimit == InitLimit /\ [][LimitNext]_vars

(***************************************************************************)
(* Properties of the codec and of generate                                 *)
(***************************************************************************)
\* every character of s is one of the 62 alphabet characters
OnlyAlphabet(s) == \A i \in 1..Len(s) : \E k \in 1..Len(BASE62_CHARS) : s[i] = BASE62_CHARS[k]

\* the value of s read as a base-62 numeral, most significant digit first
RECURSIVE NumeralValue(_)
NumeralValue(s) ==
  IF s = <<>> THEN 0
  ELSE IndexOf(s[Len(s)]) + Radix * NumeralValue(SubSeq(s, 1, Len(s) - 1))

\* the strategies that take a target length
FixedLength == {"md5", "sha256", "random", "timestamp"}

\* the input the strategy of the options requires is missing
RequiredMissing(o) ==
  \/ OptStrategy(o) = "base62" /\ o.idKind # "number"
  \/ OptStrategy(o) \in {"md5", "sha256"} /\ (~o.hasUrl \/ o.url = <<>>)

\* C1: decoding the encoding of a number n >= 0 gives n back, without error.
C1_RoundTrip ==
  cPhase = "decoded" => cDec.error = "none" /\ cDec.value = cNum

C1_Witness ==
  /\ cPhase = "decoded"
  /\ cNum = 238328
  /\ cStr = << "1", "0", "0", "0" >>
  /\ cDec.value = 238328

\* C2: generate with strategy base62 and id = n >= 0 returns the canonical
\* base-62 numeral of n: "0" for 0, otherwise non-empty, without a leading
\* "0", over the alphabet only, of value n; 125 gives "21".
C2_CanonicalNumeral ==
  (gPhase = "done" /\ gOpts.strategy = "base62" /\ gOpts.idKind = "number")
    => /\ gRes.error = "none"
       /\ Len(gRes.code) >= 1
       /\ OnlyAlphabet(gRes.code)
       /\ NumeralValue(gRes.code) = gOpts.id
       /\ (gOpts.id = 0 => gRes.code = << "0" >>)
       /\ (gOpts.id # 0 => gRes.code[1] # "0")
       /\ (gOpts.id = 125 => gRes.code = << "2", "1" >>)

C2_Witness ==
  /\ gPhase = "done"
  /\ gOpts.strategy = "base62"
  /\ gOpts.idKind = "number"
  /\ gOpts.id = 125
  /\ gRes = Return(<< "2", "1" >>)

\* C3: with strategy md5, sha256, random or timestamp (the url given for the
\* hash strategies) and a length L >= 1, generate returns exactly L
\* characters, all of the alphabet, whatever digest, bytes, random indexes
\* and clock it reads.
C3_ExactLength ==
  (/\ gPhase = "done"
   /\ OptStrategy(gOpts) \in FixedLength
   /\ ~RequiredMissing(gOpts)
   /\ OptLength(gOpts) >= 1)
    => /\ gRes.error = "none"
       /\ Len(gRes.code) = OptLength(gOpts)
       /\ OnlyAlphabet(gRes.code)

\* a hash call that reduces the digest 238327 = 62^3 - 1 modulo 62^2
C3_Witness ==
  /\ gPhase = "done"
  /\ gOpts.strategy = "md5"
  /\ gOpts.hasLength /\ gOpts.length = 2
  /\ gEnv.digest = 238327
  /\ gRes = Return(<< "Z", "Z" >>)

\* C7: decodeBase62 of a string with a character outside the alphabet fails
\* with InvalidEncoding.
C7_DecodeRejects ==
  (cPhase = "raw" /\ ~OnlyAlphabet(cStr)) => cDec.error = "InvalidEncoding"

\* decodeBase62("a!b") returns (10 * 62 - 1) * 62 + 11
C7_Witness ==
  /\ cPhase = "raw"
  /\ cStr = << "a", "!", "b" >>
  /\ cDec = [error |-> "none", value |-> 38389]

\* C8: generate throws and returns no code when the input its strategy
\* requires is missing (url absent or empty for md5 and sha256, id absent or
\* null for base62); with the input given (id = 0 included) and, for the
\* strategies that take one, a length >= 1, it throws nothing and returns a
\* non-empty code.
C8_RequiredInput ==
  gPhase = "done"
    => /\ RequiredMissing(gOpts)
            => gRes.error # "none" /\ gRes.code = <<>>
       /\ (/\ ~RequiredMissing(gOpts)
           /\ OptStrategy(gOpts) \in FixedLength \cup {"base62"}
           /\ (OptStrategy(gOpts) \in FixedLength => OptLength(gOpts) >= 1))
            => gRes.error = "none" /\ gRes.code # <<>>

C8_Witness ==
  /\ gPhase = "done"
  /\ gOpts.strategy = "md5"
  /\ ~gOpts.hasUrl
  /\ ~gOpts.hasLength
  /\ gRes = Throw("Error")

\* C9: generate with strategy md5, sha256, random or timestamp and a
\* length <= 0 fails: it returns no code.
C9_NonPositiveLengthFails ==
  (/\ gPhase = "done"
   /\ OptStrategy(gOpts) \in FixedLength
   /\ ~RequiredMissing(gOpts)
   /\ OptLength(gOpts) <= 0)
    => gRes.error # "none"

\* generate({strategy: "random", length: 0}) returns the empty string
C9_Witness ==
  /\ gPhase = "done"
  /\ gOpts.strategy = "random"
  /\ gOpts.hasLength /\ gOpts.length = 0
  /\ gRes = Return(<<>>)

\* C10: the code of a hash strategy is no function of the URL alone: after
\* any call of generate with strategy md5 or sha256, a second call with the
\* same url and length can return a different code.
C10_NotFunctionOfUrl ==
  hPhase = "one"
    => ENABLED (HashCall /\ hSecond'.res.code # hFirst.res.code)

\* two calls for one url at different clock values returned different codes
C10_Witness ==
  /\ hPhase = "two"
  /\ hOpts.strategy = "sha256"
  /\ hOpts.length = 2
  /\ hFirst.now # hSecond.now
  /\ hFirst.res.error = "none" /\ hSecond.res.error = "none"
  /\ Len(hFirst.res.code) = 2 /\ Len(hSecond.res.code) = 2
  /\ hFirst.res.code # hSecond.res.code

(***************************************************************************)
(* Properties of POST /api/url/shorten                                     *)
(***************************************************************************)
\* the code a request ended up with: its custom code, or the last candidate
FinalCode(r) == IF req[r].hasCustom THEN req[r].customCode ELSE req[r].urlCode

\* the request was answered after it had a code (by the custom-code lookup
\* or by the insert)
Claimed(r) ==
  req[r].pc = "done" /\ req[r].via \in {"customTaken", "conflict", "created"}

\* design document, URL Shortening Flow: "Regenerate up to 5 times if
\* collision"
RegenerateLimit == 5

\* C4: of the requests that end up with the same code at most one creates a
\* row and answers 201, every other one answers 409 and creates no row, and
\* the table never holds two rows with the same code.
C4_AtMostOneClaim ==
  /\ \A row1, row2 \in urls : row1.urlCode = row2.urlCode => row1 = row2
  /\ \A p \in Requests :
       Claimed(p) =>
         /\ req[p].status \in {201, 409}
         /\ req[p].status = 201 <=> req[p].created # 0
         /\ req[p].status = 201 =>
              \E row \in urls :
                row.id = req[p].created /\ row.urlCode = FinalCode(p)
  /\ \A p, q \in Requests :
       (p # q /\ Claimed(p) /\ Claimed(q) /\ FinalCode(p) = FinalCode(q))
         => ~(req[p].status = 201 /\ req[q].status = 201)
  /\ Cardinality(urls) = Cardinality({ p \in Requests : req[p].status = 201 })

\* two requests generated the same candidate, both found it free, and the
\* insert of the second one was refused
C4_Witness ==
  \E p, q \in Requests :
    /\ ~req[p].hasCustom /\ ~req[q].hasCustom
    /\ req[p].pc = "done" /\ req[p].via = "created"
    /\ req[q].pc = "done" /\ req[q].via = "conflict" /\ req[q].status = 409
    /\ req[p].urlCode = req[q].urlCode
    /\ Cardinality(urls) = 1

\* C5: a request without custom code generates at most RegenerateLimit + 1
\* candidates; when all of them are taken it ends with an error response.
C5_BoundedRetries ==
  \A r \in Requests :
    /\ req[r].attempts <= RegenerateLimit + 1
    /\ req[r].collisions >= RegenerateLimit + 1
         => req[r].pc = "done" /\ req[r].status >= 500

\* a request is in the loop after seven colliding candidates
C5_Witness ==
  /\ req[1].pc = "gen"
  /\ req[1].attempts = 7
  /\ req[1].collisions = 7
  /\ req[1].status = 0

\* C6: a request without custom code whose first k candidates were taken
\* and whose (k+1)-th was free has made exactly k+1 calls of the generator
\* when it leaves the loop, and the row it creates carries the last
\* candidate; as long as every candidate was taken it stays in the loop.
C6_RetryUntilFree ==
  \A r \in Requests :
    ~req[r].hasCustom =>
      /\ req[r].pc = "gen" => req[r].collisions = req[r].attempts
      /\ (req[r].pc = "create" \/ req[r].via \in {"created", "conflict"})
           => req[r].attempts = req[r].collisions + 1
      /\ req[r].via = "created"
           => \E row \in urls :
                /\ row.id = req[r].created
                /\ row.urlCode = req[r].urlCode
                /\ row.longUrl = req[r].longUrl
                /\ ~row.isCustom

\* two candidates taken, the third free: three attempts, the third stored
C6_Witness ==
  \E r \in Requests :
    /\ req[r].pc = "done" /\ req[r].via = "created" /\ req[r].status = 201
    /\ req[r].attempts = 3 /\ req[r].collisions = 2
    /\ req[r].urlCode = CodeB
    /\ \E row \in urls : row.id = req[r].created /\ row.urlCode = CodeB



(***************************************************************************)
(* Properties of the lifecycle of links                                    *)
(***************************************************************************)

\* expiresAt is not null and in the past
PastExpiry(row) == row.expiresAt # Null /\ row.expiresAt < clock

\* C11: codes are never recycled: a code that has identified a link is
\* never given to a different link, also after the first link has expired
\* or has been deleted.
C11_CodesNeverRecycled ==
  \A p \in issued, q \in issued : p.urlCode = q.urlCode => p.id = q.id

\* the code of a deleted link is stored again, for a link with another id
C11_Witness ==
  \E p \in issued, row \in urls :
    /\ \A other \in urls : other.id # p.id
    /\ row.urlCode = p.urlCode
    /\ row.id # p.id

\* C12: a shorten request without customCode for a longUrl that at least
\* one stored record has is answered 200 by the lookup of the longUrl, and
\* no record is created.
C12_DedupAnswersStored ==
  [][\A r \in Requests :
       ( /\ req[r].pc = "dedup"
         /\ req'[r].pc # "dedup"
         /\ \E row \in urls : row.longUrl = req[r].longUrl )
       => ( /\ req'[r].pc = "done"
            /\ req'[r].status = 200
            /\ urls' = urls )]_vars

\* a request without customCode was answered 201 though other records
\* with its longUrl were stored all along: the table holds three
C12_Witness ==
  \E r \in Requests :
    /\ ~req[r].hasCustom
    /\ req[r].status = 201
    /\ Cardinality({ row \in urls : row.longUrl = req[r].longUrl }) >= 3

\* C14: an edit request (with a valid body) for a stored link whose
\* expiresAt is in the past is answered 410 and leaves the table unchanged.
C14_ExpiredEditRejected ==
  [][( /\ edit.pc = "idle"
       /\ edit'.pc # "idle"
       /\ LongUrlOk(edit'.longUrl)
       /\ \E row \in urls : row.urlCode = edit'.urlCode /\ PastExpiry(row) )
     => ( edit'.status = 410 /\ urls' = urls )]_vars

\* the second link, expired since hour 1, was edited in the last hour: it
\* has the new longUrl and a new expiresAt, and the edit was answered 200
C14_Witness ==
  /\ edit.status = 200
  /\ \E row \in urls :
       /\ row.id = LinkB.id
       /\ row.longUrl = edit.longUrl
       /\ row.longUrl # LinkB.longUrl
       /\ row.expiresAt = MaxClock + DefaultExpirationHours

\* C20: a shorten request with a customCode that a stored record has
\* (custom or generated, expired or not) is answered 409 and leaves the
\* table unchanged; with a free customCode it stores a record with exactly
\* that code and isCustom = true; the lookup of the longUrl is never made
\* for it.
C20_CustomCode ==
  [][\A r \in Requests :
       req'[r].hasCustom =>
         /\ req'[r].pc # "dedup"
         /\ req'[r].via # "dedup"
         /\ ( /\ req[r].pc = "checkCustom"
              /\ req'[r].pc # "checkCustom"
              /\ \E row \in urls : row.urlCode = req[r].customCode )
            => ( req'[r].status = 409 /\ urls' = urls )
         /\ ( req[r].status # 409 /\ req'[r].status = 409 ) => urls' = urls
         /\ ( /\ req[r].pc = "create"
              /\ req'[r].pc # "create"
              /\ \A row \in urls : row.urlCode # req[r].customCode )
            => ( /\ req'[r].status = 201
                 /\ urls' = urls \cup
                      { [NoRow EXCEPT !.id = req'[r].created,
                                      !.urlCode = req[r].customCode,
                                      !.longUrl = req[r].longUrl,
                                      !.isCustom = TRUE,
                                      !.expiresAt = req[r].expiresAt] }
                 /\ req'[r].created \notin { row.id : row \in urls } )]_vars

\* a request with a customCode was answered 201: its record is stored with
\* that code beside a record with the same longUrl under another code
C20_Witness ==
  \E r \in Requests, row \in urls, other \in urls :
    /\ req[r].hasCustom
    /\ req[r].status = 201
    /\ row.id = req[r].created
    /\ row.urlCode = req[r].customCode
    /\ row.isCustom
    /\ other.longUrl = row.longUrl
    /\ other.urlCode # row.urlCode

(***************************************************************************)
(* Properties of redirects and click recording                             *)
(***************************************************************************)

\* the click_details rows of a link
Stored(urlId) == { d \in details : d.urlId = urlId }

\* no recordClick call is under way
Quiet == \A c \in Requests : hit[c].pc \in { "idle", "done" }

C15_ClicksOnlyForLiveLinks ==
  [][/\ \A l \in log' : ~l.expired
     /\ \A c \in Requests :
          ( hit[c].pc # "done" /\ hit'[c].pc = "done"
            /\ hit'[c].status \in { 400, 404, 410 } )
          => ( details' = details /\ urls' = urls )
     /\ \A d \in details, e \in details' : e.id = d.id => e = d]_vars

\* only track-redirect requests were made, one of them was answered 200,
\* and a ClickRecord with a timestamp after the expiresAt of the second
\* link was inserted for it
C15_Witness ==
  /\ \A c \in Requests : hit[c].kind \in { "", "track" }
  /\ \E c \in Requests : hit[c].status = 200 /\ hit[c].urlCode = LinkB.urlCode
  /\ \E l \in log :
       /\ l.urlId = LinkB.id
       /\ l.expired
       /\ l.timestamp > LinkB.expiresAt

\* C16: at most RetentionLimit (100) ClickRecords are stored per link in
\* every state, and the ClickRecords a step removes from a link that stays
\* are its oldest by timestamp.
C16_RetentionBound ==
  [][/\ \A row \in urls' : Cardinality({ d \in details' : d.urlId = row.id })
                             <= RetentionLimit
     /\ \A row \in urls' :
          \A gone \in Stored(row.id) \ details', kept \in Stored(row.id) \cap details' :
            gone.timestamp <= kept.timestamp]_vars

\* a link has more ClickRecords than RetentionLimit
C16_Witness ==
  \E row \in urls : Cardinality(Stored(row.id)) > RetentionLimit

\* C17: clicks is 0 when a link is created, never decreases, and equals
\* the number of ClickRecords ever inserted for the link, whatever was
\* trimmed or edited.
C17_ClicksCountsInserts ==
  [][/\ \A row \in urls' :
          row.clicks = Cardinality({ l \in log' : l.urlId = row.id })
     /\ \A row \in urls, new \in urls' :
          new.id = row.id => new.clicks >= row.clicks
     /\ \A new \in urls' :
          (\A row \in urls : row.id # new.id) => new.clicks = 0]_vars

\* an edited link that has been clicked more often than it has
\* ClickRecords left
C17_Witness ==
  \E row \in urls :
    /\ edit.status = 200
    /\ row.urlCode = edit.urlCode
    /\ row.longUrl = edit.longUrl
    /\ row.clicks > RetentionLimit
    /\ Cardinality(Stored(row.id)) < row.clicks

\* C18: whenever no click recording is under way, lastClickedAt of every
\* link is the greatest timestamp of its stored ClickRecords, and null
\* when it has none.
C18_LastClickedAtIsLatest ==
  Quiet =>
    \A row \in urls :
      IF Stored(row.id) = {}
        THEN row.lastClickedAt = Null
        ELSE /\ \E d \in Stored(row.id) : d.timestamp = row.lastClickedAt
             /\ \A d \in Stored(row.id) : d.timestamp <= row.lastClickedAt

\* no click recording is under way and a link has a ClickRecord later than
\* its lastClickedAt
C18_Witness ==
  /\ Quiet
  /\ \E row \in urls, d \in details :
       /\ d.urlId = row.id
       /\ row.lastClickedAt # Null
       /\ d.timestamp > row.lastClickedAt

\* C19: a delete of a stored link removes the link and all its
\* ClickRecords and nothing else; a delete of an unknown code is answered
\* 404 and changes nothing; every ClickRecord of every state references a
\* stored link.
C19_DeleteCascades ==
  [][/\ \A d \in details' : \E row \in urls' : row.id = d.urlId
     /\ reply' # reply =>
          LET deleted == { row \in urls : row.urlCode = reply'.urlCode }
          IN /\ reply'.status = 200 <=> deleted # {}
             /\ reply'.status = 404 <=> deleted = {}
             /\ urls' = urls \ deleted
             /\ details' = { d \in details :
                               \A row \in deleted : d.urlId # row.id }]_vars

\* the first link was deleted while a recordClick call was about to insert
\* a ClickRecord for it
C19_Witness ==
  /\ reply.status = 200
  /\ \E c \in Requests :
       /\ hit[c].pc = "recordInsert"
       /\ hit[c].urlId = LinkA(0).id
       /\ \A row \in urls : row.id # hit[c].urlId

(***************************************************************************)
(* Further properties of the codec and of generate                         *)
(***************************************************************************)

\* C24: the length of encodeBase62(n) is k + 1 for 62^k <= n < 62^(k+1)
\* (1 for n < 62), so it never decreases as n grows, and it grows at
\* n = 62 and at n = 3844.
C24_LengthNonDecreasing ==
  cPhase = "encoded" =>
    /\ Len(cStr) = 1 + Cardinality({ k \in 1..5 : Pow62(k) <= cNum })
    /\ \A m \in CodecNums : m <= cNum => Len(encodeBase62(m)) <= Len(cStr)
    /\ (cNum \in { 61, 62 } => Len(cStr) = 1 + cNum - 61)
    /\ (cNum \in { 3843, 3844 } => Len(cStr) = 2 + cNum - 3843)

\* 3844 = 62^2 was encoded with three characters, one more than 3843
C24_Witness ==
  /\ cPhase = "encoded"
  /\ cNum = 3844
  /\ cStr = << "1", "0", "0" >>
  /\ Len(encodeBase62(3843)) = 2

\* C28: generateTimestampBased(L), L >= 0, returns the last L characters of
\* the encoding of the clock value when the encoding has at least L
\* characters, and otherwise the whole encoding followed by the random
\* alphabet characters that bring it to L characters.
C28_TimestampSuffix ==
  (gPhase = "done" /\ OptStrategy(gOpts) = "timestamp" /\ OptLength(gOpts) >= 0)
    => LET enc == encodeBase62(gEnv.now)
           l == OptLength(gOpts)
       IN /\ gRes.error = "none"
          /\ IF Len(enc) >= l
               THEN gRes.code = SubSeq(enc, Len(enc) - l + 1, Len(enc))
               ELSE /\ Len(gRes.code) = l
                    /\ SubSeq(gRes.code, 1, Len(enc)) = enc
                    /\ Len(gEnv.pads) = l - Len(enc)
                    /\ \A i \in 1..(l - Len(enc)) :
                         gRes.code[Len(enc) + i] = CharAt(gEnv.pads[i])

\* the encoding "1000" of 238328 was cut to its last two characters
C28_Witness ==
  /\ gPhase = "done"
  /\ gOpts.strategy = "timestamp"
  /\ gOpts.hasLength /\ gOpts.length = 2
  /\ gEnv.now = 238328
  /\ gRes = Return(<< "0", "0" >>)

(***************************************************************************)
(* Further properties of the service                                       *)
(***************************************************************************)

\* C22: every link created by a request without customCode has
\* isCustom = false and a code of 1 to 30 characters, all of them of
\* 0-9 a-z A-Z.
C22_GeneratedCodesBase62 ==
  \A r \in Requests, row \in urls :
    (req[r].status = 201 /\ ~req[r].hasCustom /\ row.id = req[r].created)
      => /\ ~row.isCustom
         /\ Len(row.urlCode) >= 1
         /\ Len(row.urlCode) <= 30
         /\ OnlyAlphabet(row.urlCode)

\* a request without customCode was answered 201 with a code that holds
\* "_" and "-"
C22_Witness ==
  \E r \in Requests, row \in urls :
    /\ req[r].status = 201
    /\ ~req[r].hasCustom
    /\ row.id = req[r].created
    /\ ~row.isCustom
    /\ row.urlCode = CodeB

\* C21: a link whose expiresAt is null is never answered 410 by redirect,
\* track-redirect, edit, info or qrcode, details answers 200 with
\* expirationInfo = null for it, and a link created without expiresIn is
\* stored with expiresAt = null.
C21_NullNeverExpires ==
  [][/\ \A row \in urls :
          row.expiresAt = Null =>
            /\ \A c \in Requests :
                 (hit'[c] # hit[c] /\ hit'[c].urlCode = row.urlCode)
                   => hit'[c].status # 410
            /\ (edit' # edit /\ edit'.urlCode = row.urlCode)
                 => edit'.status # 410
            /\ (view' # view /\ view'.urlCode = row.urlCode)
                 => /\ view'.status # 410
                    /\ view'.op = "details"
                         => /\ view'.status = 200
                            /\ view'.expirationInfo = "null"
     /\ \A r \in Requests :
          (req[r].status # 201 /\ req'[r].status = 201 /\ req[r].expiresIn = 0)
            => \E row \in urls' \ urls :
                 row.id = req'[r].created /\ row.expiresAt = Null]_vars

\* a link created without expiresIn is stored with expiresAt = null, and
\* at the last hour details answers 200 with expirationInfo = null for it
C21_Witness ==
  /\ clock = MaxClock
  /\ view = Get("details", CodeB)
  /\ view.status = 200
  /\ view.expirationInfo = "null"
  /\ \E r \in Requests, row \in urls :
       /\ req[r].status = 201
       /\ req[r].expiresIn = 0
       /\ row.id = req[r].created
       /\ row.urlCode = CodeB
       /\ row.expiresAt = Null

\* C27: for a stored link past its expiresAt, stats and details answer 200
\* with the clicks of the link, details with isExpired = true and
\* remainingHours = 0.
C27_ExpiredStillQueryable ==
  [][\A row \in urls :
       ( /\ view' # view
         /\ view'.op \in { "stats", "details" }
         /\ view'.urlCode = row.urlCode
         /\ PastExpiry(row) )
       => /\ view'.status = 200
          /\ view'.totalClicks = row.clicks
          /\ view'.op = "details"
               => /\ view'.expirationInfo = "set"
                  /\ view'.isExpired
                  /\ view'.remainingHours = 0]_vars

\* details of the second link, past its expiresAt, is answered 500
C27_Witness ==
  /\ view.op = "details"
  /\ view.status = 500
  /\ view = Get("details", LinkB.urlCode)
  /\ \E row \in urls : row.urlCode = view.urlCode /\ PastExpiry(row)

\* C29: at every instant and for every stored link, details reports
\* isExpired = true exactly when the redirect answers 410, when edit and
\* track-redirect answer 410, and when info and qrcode answer 410.
C29_EndpointsAgree ==
  \A row \in urls :
    LET isExpired == Get("details", row.urlCode).isExpired
    IN /\ Expired(row) <=> isExpired
       /\ ExpiredAsCompared(row) <=> isExpired
       /\ Get("info", row.urlCode).status = 410 <=> isExpired
       /\ Get("qrcode", row.urlCode).status = 410 <=> isExpired

\* the redirect of the second link was answered 410 and info of the same
\* link is answered 200 in the same state
C29_Witness ==
  /\ \E c \in Requests :
       /\ hit[c].kind = "redirect"
       /\ hit[c].status = 410
       /\ hit[c].urlCode = LinkB.urlCode
  /\ view.op = "info"
  /\ view.status = 200
  /\ view = Get("info", LinkB.urlCode)
  /\ \E row \in urls : row.urlCode = LinkB.urlCode /\ Expired(row)

\* C25: of the POST /api/url/shorten requests of one address in one window
\* at most ShortenMax (20) are handed to the handler; the others are
\* answered 429.
C25_ShortenLimit ==
  \A ip \in Addresses : limiter[ip].handled <= ShortenMax

\* one more than ShortenMax requests of one address went on to the handler
C25_Witness ==
  \E ip \in Addresses :
    /\ limiter[ip].handled = ShortenMax + 1
    /\ limiter[ip].status = 0

\* C23: a successful edit sets longUrl of the link of the code and leaves
\* its other fields, the other links and the ClickRecords as they are,
\* except expiresAt: it becomes the hour of the request plus
\* defaultExpirationHours when resetExpiration is true or omitted (also
\* when it was null) and stays when resetExpiration is false.
C23_EditFrame ==
  [][/\ (edit.pc = "idle" /\ edit'.pc = "update"
          /\ edit'.resetExpiration # "false")
          => edit'.expiresAt = clock + DefaultExpirationHours
     /\ (edit.pc = "update" /\ edit'.status = 200)
          => /\ details' = details
             /\ \E row \in urls :
                  /\ row.urlCode = edit.urlCode
                  /\ urls' = (urls \ { row }) \cup
                       { [row EXCEPT
                            !.longUrl = edit.longUrl,
                            !.expiresAt =
                              IF edit.resetExpiration = "false" THEN @
                              ELSE edit.expiresAt] }]_vars

\* the first link, clicked once and without expiresAt, after an edit
\* without resetExpiration at the last hour
C23_Witness ==
  /\ edit.status = 200
  /\ edit.resetExpiration = "undefined"
  /\ edit.expiresAt = MaxClock + DefaultExpirationHours
  /\ [LinkA(1) EXCEPT !.longUrl = "https://b.example",
                      !.expiresAt = edit.expiresAt] \in urls
  /\ details = DetailsOf(1, 1)

\* C30: in every state at most one link with isCustom = false is stored
\* per longUrl.
C30_OneGeneratedPerLongUrl ==
  \A a \in urls, b \in urls :
    (~a.isCustom /\ ~b.isCustom /\ a.longUrl = b.longUrl) => a = b

\* two requests without customCode for one longUrl were both answered 201
\* and their two links are stored
C30_Witness ==
  \E r \in Requests, s \in Requests, a \in urls, b \in urls :
    /\ r # s
    /\ req[r].status = 201 /\ req[s].status = 201
    /\ ~req[r].hasCustom /\ ~req[s].hasCustom
    /\ req[r].longUrl = req[s].longUrl
    /\ a.id = req[r].created /\ b.id = req[s].created
    /\ a.longUrl = b.longUrl
    /\ ~a.isCustom /\ ~b.isCustom

====
